---------------------------- MODULE Spec2Model ----------------------------
(***************************************************************************)
(* Model of the podcast generator's two stateful components:               *)
(*   - the agentic tool-use loop generate_script                           *)
(*     (backend/app/services/script_generator.py) together with its HTTP   *)
(*     caller generate_podcast (backend/app/api/routes/generate.py);       *)
(*   - the MCP client ArxivMCPClient (backend/app/services/mcp_client.py). *)
(* The reasoning engine, the arXiv search backend and the MCP server are   *)
(* external: every reply they can give is a nondeterministic input.        *)
(***************************************************************************)
EXTENDS Integers, Sequences, FiniteSets, TLC

(***************************************************************************)
(* Bounds of the model.                                                    *)
(***************************************************************************)
\* engine queries explored in one run of generate_script (the loop has no cap)
MaxQueries == 2
\* content blocks the engine emits over one run, all responses together
MaxBlocks == 3
\* list_tools / call_tool calls made on one ArxivMCPClient
MaxCalls == 2
\* cleanup calls made on one ArxivMCPClient
MaxCleanups == 2
\* content blocks in one tool result of the MCP server
MaxContent == 2
\* largest max_results, either way from zero, a search request carries
MaxRequested == 12

(***************************************************************************)
(* Program constants.                                                      *)
(***************************************************************************)
\* settings.podcast_duration_minutes
podcast_duration_minutes == 5
\* words per minute used for the target length
WordsPerMinute == 150
\* default of the max_results argument
DefaultMaxResults == 5
\* cap applied by _execute_arxiv_search
MaxResultsCap == 10

(***************************************************************************)
(* Input domains.                                                          *)
(***************************************************************************)
\* duration_minutes: int | None, as a set with at most one element
Durations == {{}, {0}, {2}}
\* the topic argument
Topic == "topic"
\* texts an engine response can carry
Texts == {"s1", "s2"}
\* invocation ids the engine can give to tool_use blocks
Ids == {"t1", "t2"}
\* a tool input (a dict): the keys present and their values
NoInput == [keys |-> {}, query |-> "", max_results |-> 0]
QueryInput == [keys |-> {"query"}, query |-> "q", max_results |-> 0]
\* what the engine can ask for: the declared tool, with and without its
\* required argument, and a tool it was never given
ToolRequests ==
    {[name |-> "arxiv_search", input |-> QueryInput],
     [name |-> "arxiv_search", input |-> NoInput],
     [name |-> "web_search", input |-> QueryInput]}
\* the inputs of a search request: max_results omitted, or an integer
SearchInputs ==
    {QueryInput} \cup
    {[keys |-> {"query", "max_results"}, query |-> "q", max_results |-> m] :
        m \in (0 - MaxRequested)..MaxRequested}
\* result lists the arXiv backend can return
ItemLists == {<<>>, <<"p1">>}
\* stop reasons of an engine response
StopReasons == {"tool_use", "end_turn", "max_tokens"}

TextBlock(t) == [type |-> "text", text |-> t]
ToolUseBlock(i, n, inp) == [type |-> "tool_use", id |-> i, name |-> n, input |-> inp]

Blocks ==
    {TextBlock(t) : t \in Texts}
    \cup {ToolUseBlock(i, q.name, q.input) : i \in Ids, q \in ToolRequests}

SeqsUpTo(S, n) == UNION {[1..k -> S] : k \in 0..n}

\* invocation ids are unique within one response
DistinctIds(content) ==
    \A i, j \in 1..Len(content) :
        (i # j /\ content[i].type = "tool_use" /\ content[j].type = "tool_use")
            => content[i].id # content[j].id

\* the responses the engine can give with n blocks left of its budget
Contents(n) == {c \in SeqsUpTo(Blocks, n) : DistinctIds(c)}
Responses(n) == [stop_reason : StopReasons, content : Contents(n)]

VARIABLES
    pc,            \* position of generate_script
    duration_arg,  \* the duration_minutes argument
    messages,      \* the transcript
    response,      \* the engine response being handled
    idx,           \* position of the for loop in response.content
    tool_results,  \* results collected in the current turn
    returned,      \* value returned by generate_script
    error,         \* exception raised out of generate_script
    nqueries,      \* engine queries issued
    calls,         \* invocations of _process_tool_call, in order
    caller,        \* who called generate_script: the HTTP route or the CLI
    outcome,       \* what that caller observed
    create_args,   \* the arguments of the last client.messages.create
    searches       \* the arguments of the ArxivSource.search calls made

loopVars == <<pc, duration_arg, messages, response, idx, tool_results,
              returned, error, nqueries, calls, caller, outcome, create_args,
              searches>>

VARIABLES
    scope,         \* how the client is used: "direct" calls, or the phase of `async with`
    cpc,           \* position of the task inside a method of the client
    session,       \* self.session: "None" or "Session"
    exit_stack,    \* self.exit_stack: the contexts entered, oldest first
    tools,         \* self._tools: the declarations discovered by connect
    child,         \* the server process: "none", "alive", "stopped"
    sess,          \* the ClientSession: "none", "open", "ready", "closed"
    stops,         \* times the transport's exit has run
    pending,       \* exception aclose carries while it unwinds
    sent,          \* list_tools / call_tool requests written to the session
    last,          \* how the last method call of the client ended
    connected,     \* connect has been called
    ncalls,        \* list_tools / call_tool calls made
    cleanups,      \* cleanup calls made
    body_outcome,  \* how the body of `async with` ended
    scope_result,  \* what `async with` gave its caller
    call_result,   \* the last reply of session.call_tool
    server_tools,  \* the operations the server exposes now
    other          \* a second task sharing the client: where it is in a call, or how its call ended

clientVars == <<scope, cpc, session, exit_stack, tools, child, sess, stops,
                pending, sent, last, connected, ncalls, cleanups, body_outcome,
                scope_result, call_result, server_tools, other>>

vars == <<loopVars, clientVars>>

(***************************************************************************)
(* generate_script: pure parts.                                            *)
(***************************************************************************)
Min(a, b) == IF a <= b THEN a ELSE b

\* `duration_minutes or settings.podcast_duration_minutes`
EffectiveDuration(d) ==
    IF d = {} THEN podcast_duration_minutes
    ELSE LET v == CHOOSE x \in d : TRUE
         IN IF v = 0 THEN podcast_duration_minutes ELSE v

WordCount(d) == EffectiveDuration(d) * WordsPerMinute

\* the seed user turn
GoalTurn(d) ==
    [role |-> "user",
     content |-> [topic |-> Topic, duration |-> EffectiveDuration(d),
                  word_count |-> WordCount(d)]]

\* dict access
Has(input, k) == k \in input.keys
GetMaxResults(input) ==
    IF Has(input, "max_results") THEN input.max_results ELSE DefaultMaxResults

\* how a call ends, with the arguments ArxivSource.search got during it
Return(v) == [raised |-> FALSE, exc |-> "", value |-> v, searched |-> <<>>]
Raise(e) == [raised |-> TRUE, exc |-> e, value |-> [kind |-> "none"], searched |-> <<>>]

\* ArxivSource.search: the backend answers with a list of papers or fails
SourceSearch(query, max_results) ==
    {[o EXCEPT !.searched = <<[query |-> query, max_results |-> max_results]>>] :
        o \in {Raise("HTTPError")} \cup {Return(items) : items \in ItemLists}}

\* the text _execute_arxiv_search builds from the papers found
FormatResults(query, items) ==
    IF Len(items) = 0
    THEN [kind |-> "no_results", query |-> query]
    ELSE [kind |-> "found", query |-> query, papers |-> items]

\* variant: max_results is passed on as requested
execute_arxiv_search_uncapped(query, max_results) ==
    {IF o.raised THEN o ELSE [o EXCEPT !.value = FormatResults(query, o.value)] :
        o \in SourceSearch(query, max_results)}

\* _execute_arxiv_search: every way the call can end
execute_arxiv_search(query, max_results) ==
    LET capped == Min(max_results, MaxResultsCap)
    IN {IF o.raised THEN o ELSE [o EXCEPT !.value = FormatResults(query, o.value)] :
            o \in SourceSearch(query, capped)}

UnknownTool(name) == [kind |-> "unknown_tool", name |-> name]

\* variant: a tool that is not known raises instead of answering
process_tool_call_strict(tool_name, tool_input) ==
    IF tool_name = "arxiv_search"
    THEN IF Has(tool_input, "query")
         THEN execute_arxiv_search(tool_input.query, GetMaxResults(tool_input))
         ELSE {Raise("KeyError")}
    ELSE {Raise("ValueError")}

\* _process_tool_call: every way the call can end
process_tool_call(tool_name, tool_input) ==
    IF tool_name = "arxiv_search"
    THEN IF Has(tool_input, "query")
         THEN execute_arxiv_search(tool_input.query, GetMaxResults(tool_input))
         ELSE {Raise("KeyError")}
    ELSE {Return(UnknownTool(tool_name))}

\* the entry appended to tool_results for one executed block
ToolResult(block, result) ==
    [type |-> "tool_result", tool_use_id |-> block.id, content |-> result]

NoScript == "Error: No script generated"

\* variant: the text of the last block that has one
RECURSIVE FinalTextLast(_, _)
FinalTextLast(content, i) ==
    IF i > Len(content) THEN NoScript
    ELSE LET rest == FinalTextLast(content, i + 1)
         IN IF rest # NoScript THEN rest
            ELSE IF "text" \in DOMAIN content[i] THEN content[i].text
            ELSE NoScript

\* the else branch: the text of the first block that has one, or the fallback
RECURSIVE FinalText(_, _)
FinalText(content, i) ==
    IF i > Len(content) THEN NoScript
    ELSE IF "text" \in DOMAIN content[i] THEN content[i].text
    ELSE FinalText(content, i + 1)

NoResponse == [stop_reason |-> "none", content |-> <<>>]

\* SYSTEM_PROMPT.format(duration_minutes=duration, word_count=word_count)
SystemPrompt(d) ==
    [duration_minutes |-> EffectiveDuration(d), word_count |-> WordCount(d)]

\* the arguments of client.messages.create
EngineRequest(d, msgs) ==
    [system |-> SystemPrompt(d), tools |-> {"arxiv_search"}, messages |-> msgs]

NoRequest == [system |-> SystemPrompt({}), tools |-> {}, messages |-> <<>>]

\* blocks the engine has emitted in the turns of the transcript
RECURSIVE BlocksIn(_)
BlocksIn(msgs) ==
    IF Len(msgs) = 0 THEN 0
    ELSE (IF Head(msgs).role = "assistant" THEN Len(Head(msgs).content) ELSE 0)
         + BlocksIn(Tail(msgs))
BlocksLeft == MaxBlocks - BlocksIn(messages)

(***************************************************************************)
(* generate_script: the loop.                                              *)
(***************************************************************************)
Callers == {"route", "cli"}

\* GenerateRequest.duration_minutes: Field(default=5, ge=1, le=30)
RouteMinDuration == 1
RouteMaxDuration == 30

\* the route always passes a duration; the CLI passes None unless --duration
LoopStart ==
    /\ pc = "AwaitingEngine"
    /\ messages = <<GoalTurn(duration_arg)>>
    /\ response = NoResponse
    /\ idx = 0
    /\ tool_results = <<>>
    /\ returned = ""
    /\ error = ""
    /\ nqueries = 0
    /\ calls = <<>>
    /\ outcome = [status |-> "pending"]
    /\ create_args = NoRequest
    /\ searches = <<>>

InitLoop ==
    /\ caller \in Callers
    /\ duration_arg \in Durations
    /\ caller = "route" => \E d \in duration_arg : RouteMinDuration <= d /\ d <= RouteMaxDuration
    /\ LoopStart

\* variant: the exception of client.messages.create is caught and the loop
\* queries again
EngineFailsRetried ==
    /\ pc = "AwaitingEngine"
    /\ nqueries < MaxQueries
    /\ nqueries' = nqueries + 1
    /\ error' = "APIError"
    /\ create_args' = EngineRequest(duration_arg, messages)
    /\ UNCHANGED searches
    /\ UNCHANGED clientVars
    /\ UNCHANGED <<pc, duration_arg, messages, response, idx, tool_results,
                   returned, calls, caller, outcome>>

\* client.messages.create raises
EngineFails ==
    /\ pc = "AwaitingEngine"
    /\ nqueries < MaxQueries
    /\ nqueries' = nqueries + 1
    /\ pc' = "Failed"
    /\ error' = "APIError"
    /\ create_args' = EngineRequest(duration_arg, messages)
    /\ UNCHANGED searches
    /\ UNCHANGED clientVars
    /\ UNCHANGED <<duration_arg, messages, response, idx, tool_results,
                   returned, calls, caller, outcome>>

\* variant: a tool_use response that carries a text is returned from with
\* that text
EngineRequestsToolsReturnsText ==
    /\ pc = "AwaitingEngine"
    /\ nqueries < MaxQueries
    /\ \E r \in Responses(BlocksLeft) :
        /\ r.stop_reason = "tool_use"
        /\ response' = r
        /\ IF FinalText(r.content, 1) # NoScript
           THEN /\ pc' = "Done"
                /\ returned' = FinalText(r.content, 1)
                /\ UNCHANGED <<idx, tool_results>>
           ELSE /\ pc' = "ExecutingTools"
                /\ idx' = 1
                /\ tool_results' = <<>>
                /\ UNCHANGED returned
    /\ nqueries' = nqueries + 1
    /\ create_args' = EngineRequest(duration_arg, messages)
    /\ UNCHANGED searches
    /\ UNCHANGED clientVars
    /\ UNCHANGED <<duration_arg, messages, error, calls, caller, outcome>>

\* client.messages.create answers with stop_reason tool_use
EngineRequestsTools ==
    /\ pc = "AwaitingEngine"
    /\ nqueries < MaxQueries
    /\ \E r \in Responses(BlocksLeft) :
        /\ r.stop_reason = "tool_use"
        /\ response' = r
    /\ nqueries' = nqueries + 1
    /\ tool_results' = <<>>
    /\ idx' = 1
    /\ pc' = "ExecutingTools"
    /\ create_args' = EngineRequest(duration_arg, messages)
    /\ UNCHANGED searches
    /\ UNCHANGED clientVars
    /\ UNCHANGED <<duration_arg, messages, returned, error, calls, caller, outcome>>

\* client.messages.create answers with one search request, whose max_results
\* is any of SearchInputs
EngineRequestsSearch ==
    /\ pc = "AwaitingEngine"
    /\ nqueries < MaxQueries
    /\ BlocksLeft > 0
    /\ \E inp \in SearchInputs :
        response' = [stop_reason |-> "tool_use",
                     content |-> <<ToolUseBlock("t1", "arxiv_search", inp)>>]
    /\ nqueries' = nqueries + 1
    /\ tool_results' = <<>>
    /\ idx' = 1
    /\ pc' = "ExecutingTools"
    /\ create_args' = EngineRequest(duration_arg, messages)
    /\ UNCHANGED searches
    /\ UNCHANGED clientVars
    /\ UNCHANGED <<duration_arg, messages, returned, error, calls, caller, outcome>>

\* variant: the branch is chosen by the blocks of the response, not by its
\* stop reason
EngineFinalByContent ==
    /\ pc = "AwaitingEngine"
    /\ nqueries < MaxQueries
    /\ \E r \in Responses(BlocksLeft) :
        /\ r.stop_reason # "tool_use"
        /\ response' = r
        /\ IF \E i \in 1..Len(r.content) : r.content[i].type = "tool_use"
           THEN /\ pc' = "ExecutingTools"
                /\ idx' = 1
                /\ tool_results' = <<>>
                /\ UNCHANGED returned
           ELSE /\ pc' = "Done"
                /\ returned' = FinalText(r.content, 1)
                /\ UNCHANGED <<idx, tool_results>>
    /\ nqueries' = nqueries + 1
    /\ create_args' = EngineRequest(duration_arg, messages)
    /\ UNCHANGED searches
    /\ UNCHANGED clientVars
    /\ UNCHANGED <<duration_arg, messages, error, calls, caller, outcome>>

\* client.messages.create answers with another stop reason: return
EngineFinal ==
    /\ pc = "AwaitingEngine"
    /\ nqueries < MaxQueries
    /\ \E r \in Responses(BlocksLeft) :
        /\ r.stop_reason # "tool_use"
        /\ response' = r
        /\ returned' = FinalText(r.content, 1)
    /\ nqueries' = nqueries + 1
    /\ pc' = "Done"
    /\ create_args' = EngineRequest(duration_arg, messages)
    /\ UNCHANGED searches
    /\ UNCHANGED clientVars
    /\ UNCHANGED <<duration_arg, messages, idx, tool_results, error, calls,
                   caller, outcome>>

\* the for loop passes over a block that is no tool_use
SkipBlock ==
    /\ pc = "ExecutingTools"
    /\ idx <= Len(response.content)
    /\ response.content[idx].type # "tool_use"
    /\ idx' = idx + 1
    /\ UNCHANGED create_args
    /\ UNCHANGED searches
    /\ UNCHANGED clientVars
    /\ UNCHANGED <<pc, duration_arg, messages, response, tool_results, returned,
                   error, nqueries, calls, caller, outcome>>

\* the for loop reaches a tool_use block and awaits _process_tool_call
StartToolCall ==
    /\ pc = "ExecutingTools"
    /\ idx <= Len(response.content)
    /\ response.content[idx].type = "tool_use"
    /\ pc' = "AwaitingTool"
    /\ calls' = Append(calls, response.content[idx])
    /\ UNCHANGED create_args
    /\ UNCHANGED searches
    /\ UNCHANGED clientVars
    /\ UNCHANGED <<duration_arg, messages, response, idx, tool_results, returned,
                   error, nqueries, caller, outcome>>

\* variant: the result is put in front of the results collected so far
ToolReturnsPrepended ==
    /\ pc = "AwaitingTool"
    /\ \E o \in process_tool_call(response.content[idx].name,
                                  response.content[idx].input) :
        /\ ~o.raised
        /\ searches' = searches \o o.searched
        /\ tool_results' =
              <<ToolResult(response.content[idx], o.value)>> \o tool_results
    /\ idx' = idx + 1
    /\ pc' = "ExecutingTools"
    /\ UNCHANGED create_args
    /\ UNCHANGED clientVars
    /\ UNCHANGED <<duration_arg, messages, response, returned, error, nqueries,
                   calls, caller, outcome>>

\* _process_tool_call returns: the result is appended to tool_results
ToolReturns ==
    /\ pc = "AwaitingTool"
    /\ \E o \in process_tool_call(response.content[idx].name,
                                  response.content[idx].input) :
        /\ ~o.raised
        /\ searches' = searches \o o.searched
        /\ tool_results' =
              Append(tool_results, ToolResult(response.content[idx], o.value))
    /\ idx' = idx + 1
    /\ pc' = "ExecutingTools"
    /\ UNCHANGED create_args
    /\ UNCHANGED clientVars
    /\ UNCHANGED <<duration_arg, messages, response, returned, error, nqueries,
                   calls, caller, outcome>>

\* variant: the exception is swallowed and the for loop goes on
ToolRaisesSwallowed ==
    /\ pc = "AwaitingTool"
    /\ \E o \in process_tool_call(response.content[idx].name,
                                  response.content[idx].input) :
        /\ o.raised
        /\ searches' = searches \o o.searched
    /\ idx' = idx + 1
    /\ pc' = "ExecutingTools"
    /\ UNCHANGED create_args
    /\ UNCHANGED clientVars
    /\ UNCHANGED <<duration_arg, messages, response, tool_results, returned, error,
                   nqueries, calls, caller, outcome>>

\* _process_tool_call raises: nothing catches it, generate_script raises
ToolRaises ==
    /\ pc = "AwaitingTool"
    /\ \E o \in process_tool_call(response.content[idx].name,
                                  response.content[idx].input) :
        /\ o.raised
        /\ searches' = searches \o o.searched
        /\ error' = o.exc
    /\ pc' = "Failed"
    /\ UNCHANGED create_args
    /\ UNCHANGED clientVars
    /\ UNCHANGED <<duration_arg, messages, response, idx, tool_results, returned,
                   nqueries, calls, caller, outcome>>

\* the two turns appended after the for loop
AssistantTurn(content) == [role |-> "assistant", content |-> content]
ResultsTurn(results) == [role |-> "user", content |-> results]

\* variant: the results turn is appended before the assistant turn
AppendTurnsResultsFirst ==
    /\ pc = "ExecutingTools"
    /\ idx > Len(response.content)
    /\ messages' = messages \o <<ResultsTurn(tool_results),
                                 AssistantTurn(response.content)>>
    /\ pc' = "AwaitingEngine"
    /\ UNCHANGED create_args
    /\ UNCHANGED searches
    /\ UNCHANGED clientVars
    /\ UNCHANGED <<duration_arg, response, idx, tool_results, returned, error,
                   nqueries, calls, caller, outcome>>

\* variant: the loop has an iteration cap of one tool round
AppendTurnsCapped ==
    /\ pc = "ExecutingTools"
    /\ idx > Len(response.content)
    /\ messages' = messages \o <<AssistantTurn(response.content),
                                 ResultsTurn(tool_results)>>
    /\ pc' = "Done"
    /\ returned' = NoScript
    /\ UNCHANGED create_args
    /\ UNCHANGED searches
    /\ UNCHANGED clientVars
    /\ UNCHANGED <<duration_arg, response, idx, tool_results, error,
                   nqueries, calls, caller, outcome>>

\* variant: a results turn is appended only when there are results
AppendTurnsSkipEmpty ==
    /\ pc = "ExecutingTools"
    /\ idx > Len(response.content)
    /\ messages' = IF Len(tool_results) > 0
                   THEN messages \o <<AssistantTurn(response.content),
                                      ResultsTurn(tool_results)>>
                   ELSE Append(messages, AssistantTurn(response.content))
    /\ pc' = "AwaitingEngine"
    /\ UNCHANGED create_args
    /\ UNCHANGED searches
    /\ UNCHANGED clientVars
    /\ UNCHANGED <<duration_arg, response, idx, tool_results, returned, error,
                   nqueries, calls, caller, outcome>>

\* the for loop is over: both turns are appended and the loop goes round
AppendTurns ==
    /\ pc = "ExecutingTools"
    /\ idx > Len(response.content)
    /\ messages' = messages \o <<AssistantTurn(response.content),
                                 ResultsTurn(tool_results)>>
    /\ pc' = "AwaitingEngine"
    /\ UNCHANGED create_args
    /\ UNCHANGED searches
    /\ UNCHANGED clientVars
    /\ UNCHANGED <<duration_arg, response, idx, tool_results, returned, error,
                   nqueries, calls, caller, outcome>>

(***************************************************************************)
(* The callers of generate_script.                                         *)
(***************************************************************************)
\* generate_podcast: a returned string is the script of a 200 response, any
\* exception becomes a 500
generate_podcast ==
    /\ caller = "route"
    /\ outcome.status = "pending"
    /\ pc \in {"Done", "Failed"}
    /\ outcome' = IF pc = "Done"
                  THEN [status |-> "200", script |-> returned]
                  ELSE [status |-> "500", detail |-> error]
    /\ UNCHANGED create_args
    /\ UNCHANGED searches
    /\ UNCHANGED clientVars
    /\ UNCHANGED <<pc, duration_arg, messages, response, idx, tool_results,
                   returned, error, nqueries, calls, caller>>

\* _generate_podcast: a returned string is saved as the script, an exception
\* ends the command
cli_generate ==
    /\ caller = "cli"
    /\ outcome.status = "pending"
    /\ pc \in {"Done", "Failed"}
    /\ outcome' = IF pc = "Done"
                  THEN [status |-> "saved", script |-> returned]
                  ELSE [status |-> "crashed", detail |-> error]
    /\ UNCHANGED create_args
    /\ UNCHANGED searches
    /\ UNCHANGED clientVars
    /\ UNCHANGED <<pc, duration_arg, messages, response, idx, tool_results,
                   returned, error, nqueries, calls, caller>>

NextLoop ==
    \/ EngineFails
    \/ EngineRequestsTools
    \/ EngineFinal
    \/ SkipBlock
    \/ StartToolCall
    \/ ToolReturns
    \/ ToolRaises
    \/ AppendTurns
    \/ generate_podcast
    \/ cli_generate

(***************************************************************************)
(* ArxivMCPClient: inputs and pure parts.                                  *)
(***************************************************************************)
\* an operation as the server lists it
ServerTool(n) ==
    [name |-> n, description |-> <<"about", n>>, inputSchema |-> <<"schema of", n>>]

\* the operations the server reports
ServerTools == <<ServerTool("search_papers"), ServerTool("download_paper")>>

\* what the server may expose at other times
ServerToolLists ==
    {ServerTools,
     <<ServerTool("download_paper"), ServerTool("search_papers")>>,
     <<ServerTool("read_paper")>>}

\* the declaration connect and list_tools build for an operation
Declaration(tool) ==
    [name |-> tool.name, description |-> tool.description,
     input_schema |-> tool.inputSchema]
Declarations(ts) == [i \in 1..Len(ts) |-> Declaration(ts[i])]

\* content blocks of a tool result: textual ones carry `text`, others do not
McpBlocks ==
    {[type |-> "text", text |-> "a"], [type |-> "text", text |-> "b"],
     [type |-> "image", data |-> "d"]}
\* what session.call_tool can return
ToolReplies == [isError : BOOLEAN, content : SeqsUpTo(McpBlocks, MaxContent)]
NoReply == [isError |-> FALSE, content |-> <<>>]

\* the texts of the blocks that have one, in order
RECURSIVE BlockTexts(_)
BlockTexts(content) ==
    IF Len(content) = 0 THEN <<>>
    ELSE (IF "text" \in DOMAIN Head(content) THEN <<Head(content).text>> ELSE <<>>)
         \o BlockTexts(Tail(content))

\* variant: the texts are put together with nothing between them
JoinConcat(texts) == texts

\* "\n".join(texts), as the sequence of its pieces
RECURSIVE JoinNewline(_)
JoinNewline(texts) ==
    IF Len(texts) = 0 THEN <<>>
    ELSE IF Len(texts) = 1 THEN <<texts[1]>>
    ELSE <<texts[1], "\n">> \o JoinNewline(Tail(texts))

\* the string call_tool returns for a result
call_tool_result(result) ==
    IF Len(result.content) > 0
    THEN LET texts == BlockTexts(result.content)
         IN IF Len(texts) > 0
            THEN [kind |-> "joined", pieces |-> JoinNewline(texts)]
            ELSE [kind |-> "repr", content |-> result.content]
    ELSE [kind |-> "literal", pieces |-> <<"No result returned">>]

NoValue == [kind |-> "none"]
Returned(op, v) == [op |-> op, raised |-> FALSE, exc |-> "", value |-> v]
Raised(op, e) == [op |-> op, raised |-> TRUE, exc |-> e, value |-> NoValue]

NotConnected == "RuntimeError: Not connected to MCP server"

(***************************************************************************)
(* ArxivMCPClient: construction.                                           *)
(***************************************************************************)
\* __init__
Constructed ==
    /\ cpc = "idle"
    /\ session = "None"
    /\ exit_stack = <<>>
    /\ tools = <<>>
    /\ child = "none"
    /\ sess = "none"
    /\ stops = 0
    /\ pending = "none"
    /\ sent = <<>>
    /\ last = Returned("__init__", NoValue)
    /\ connected = FALSE
    /\ ncalls = 0
    /\ cleanups = 0
    /\ body_outcome = "none"
    /\ scope_result = "none"
    /\ call_result = NoReply
    /\ other = "idle"

\* the client is used through `async with`, or its methods are called directly
InitClient ==
    /\ scope \in {"new", "direct"}
    /\ server_tools \in ServerToolLists
    /\ Constructed

(***************************************************************************)
(* connect, and __aenter__ which only calls it.                            *)
(***************************************************************************)
\* `async with ArxivMCPClient()`: __aenter__ calls connect
aenter ==
    /\ scope = "new"
    /\ cpc = "idle"
    /\ scope' = "entering"
    /\ cpc' = "c_stdio"
    /\ connected' = TRUE
    /\ UNCHANGED <<call_result, server_tools>>
    /\ UNCHANGED other
    /\ UNCHANGED loopVars
    /\ UNCHANGED <<session, exit_stack, tools, child, sess, stops, pending, sent,
                   last, ncalls, cleanups, body_outcome, scope_result>>

\* connect called directly (a client is connected at most once)
connect ==
    /\ scope = "direct"
    /\ cpc = "idle"
    /\ ~connected
    /\ cpc' = "c_stdio"
    /\ connected' = TRUE
    /\ UNCHANGED <<call_result, server_tools>>
    /\ UNCHANGED other
    /\ UNCHANGED loopVars
    /\ UNCHANGED <<scope, session, exit_stack, tools, child, sess, stops, pending,
                   sent, last, ncalls, cleanups, body_outcome, scope_result>>

\* enter_async_context(stdio_client(...)) succeeds: the server process runs
StdioEntered ==
    /\ cpc = "c_stdio"
    /\ exit_stack' = Append(exit_stack, "stdio")
    /\ child' = "alive"
    /\ cpc' = "c_session"
    /\ UNCHANGED <<call_result, server_tools>>
    /\ UNCHANGED other
    /\ UNCHANGED loopVars
    /\ UNCHANGED <<scope, session, tools, sess, stops, pending, sent, last,
                   connected, ncalls, cleanups, body_outcome, scope_result>>

\* enter_async_context(ClientSession(...)) succeeds and is bound to self.session
SessionEntered ==
    /\ cpc = "c_session"
    /\ exit_stack' = Append(exit_stack, "session")
    /\ sess' = "open"
    /\ session' = "Session"
    /\ cpc' = "c_init"
    /\ UNCHANGED <<call_result, server_tools>>
    /\ UNCHANGED other
    /\ UNCHANGED loopVars
    /\ UNCHANGED <<scope, tools, child, stops, pending, sent, last, connected,
                   ncalls, cleanups, body_outcome, scope_result>>

\* session.initialize() succeeds: the handshake is done
Initialized ==
    /\ cpc = "c_init"
    /\ sess' = "ready"
    /\ cpc' = "c_list"
    /\ UNCHANGED <<call_result, server_tools>>
    /\ UNCHANGED other
    /\ UNCHANGED loopVars
    /\ UNCHANGED <<scope, session, exit_stack, tools, child, stops, pending, sent,
                   last, connected, ncalls, cleanups, body_outcome, scope_result>>

\* session.list_tools() succeeds: connect fills _tools and returns
ToolsDiscovered ==
    /\ cpc = "c_list"
    /\ tools' = Declarations(server_tools)
    /\ cpc' = "idle"
    /\ last' = Returned("connect", NoValue)
    /\ scope' = IF scope = "entering" THEN "body" ELSE scope
    /\ UNCHANGED <<call_result, server_tools>>
    /\ UNCHANGED other
    /\ UNCHANGED loopVars
    /\ UNCHANGED <<session, exit_stack, child, sess, stops, pending, sent,
                   connected, ncalls, cleanups, body_outcome, scope_result>>

\* what the await connect is suspended in can raise
ConnectErrors(at) ==
    {"CancelledError"} \cup
    (CASE at = "c_stdio" -> {"LaunchError"}
       [] at = "c_session" -> {}
       [] at = "c_init" -> {"ProtocolError"}
       [] at = "c_list" -> {"ProtocolError"}
       [] OTHER -> {})

\* an await of connect raises: nothing in connect or __aenter__ catches it, and
\* __aexit__ is not called for an __aenter__ that raised
ConnectRaises ==
    /\ cpc \in {"c_stdio", "c_session", "c_init", "c_list"}
    /\ \E e \in ConnectErrors(cpc) :
        /\ last' = Raised("connect", e)
        /\ scope_result' = IF scope = "entering" THEN e ELSE scope_result
    /\ cpc' = "idle"
    /\ scope' = IF scope = "entering" THEN "enter_raised" ELSE scope
    /\ UNCHANGED <<call_result, server_tools>>
    /\ UNCHANGED other
    /\ UNCHANGED loopVars
    /\ UNCHANGED <<session, exit_stack, tools, child, sess, stops, pending, sent,
                   connected, ncalls, cleanups, body_outcome>>

(***************************************************************************)
(* list_tools and call_tool.                                               *)
(***************************************************************************)
\* the caller (the body of `async with`, or a direct user) may call a method
CanCall ==
    /\ scope \in {"direct", "body"}
    /\ cpc = "idle"
    /\ ncalls < MaxCalls

\* the guard `if not self.session`
SessionSet == session # "None"

\* a request written to self.session
Request(op) == [op |-> op, sess |-> sess]

\* list_tools up to its await
list_tools ==
    /\ CanCall
    /\ ncalls' = ncalls + 1
    /\ IF SessionSet
       THEN /\ sent' = Append(sent, Request("list_tools"))
            /\ cpc' = "l_wait"
            /\ UNCHANGED last
       ELSE /\ last' = Raised("list_tools", NotConnected)
            /\ UNCHANGED <<sent, cpc>>
    /\ UNCHANGED <<call_result, server_tools>>
    /\ UNCHANGED other
    /\ UNCHANGED loopVars
    /\ UNCHANGED <<scope, session, exit_stack, tools, child, sess, stops, pending,
                   connected, cleanups, body_outcome, scope_result>>

\* call_tool up to its await
call_tool ==
    /\ CanCall
    /\ ncalls' = ncalls + 1
    /\ IF SessionSet
       THEN /\ sent' = Append(sent, Request("call_tool"))
            /\ cpc' = "t_wait"
            /\ UNCHANGED last
       ELSE /\ last' = Raised("call_tool", NotConnected)
            /\ UNCHANGED <<sent, cpc>>
    /\ UNCHANGED <<call_result, server_tools>>
    /\ UNCHANGED other
    /\ UNCHANGED loopVars
    /\ UNCHANGED <<scope, session, exit_stack, tools, child, sess, stops, pending,
                   connected, cleanups, body_outcome, scope_result>>

\* variant: list_tools also stores the declarations it built in self._tools
ListToolsRefreshes ==
    /\ cpc = "l_wait"
    /\ sess = "ready"
    /\ last' = Returned("list_tools", [kind |-> "tools", declarations |-> Declarations(server_tools)])
    /\ tools' = Declarations(server_tools)
    /\ cpc' = "idle"
    /\ UNCHANGED <<call_result, server_tools>>
    /\ UNCHANGED other
    /\ UNCHANGED loopVars
    /\ UNCHANGED <<scope, session, exit_stack, child, sess, stops, pending,
                   sent, connected, ncalls, cleanups, body_outcome, scope_result>>

\* session.list_tools() answers: the declarations are built and returned
ListToolsReturns ==
    /\ cpc = "l_wait"
    /\ sess = "ready"
    /\ last' = Returned("list_tools", [kind |-> "tools", declarations |-> Declarations(server_tools)])
    /\ cpc' = "idle"
    /\ UNCHANGED <<call_result, server_tools>>
    /\ UNCHANGED other
    /\ UNCHANGED loopVars
    /\ UNCHANGED <<scope, session, exit_stack, tools, child, sess, stops, pending,
                   sent, connected, ncalls, cleanups, body_outcome, scope_result>>

\* session.call_tool() answers: the text is extracted and returned
CallToolReturns ==
    /\ cpc = "t_wait"
    /\ sess = "ready"
    /\ \E reply \in ToolReplies :
        /\ call_result' = reply
        /\ last' = Returned("call_tool", call_tool_result(reply))
    /\ cpc' = "idle"
    /\ UNCHANGED server_tools
    /\ UNCHANGED other
    /\ UNCHANGED loopVars
    /\ UNCHANGED <<scope, session, exit_stack, tools, child, sess, stops, pending,
                   sent, connected, ncalls, cleanups, body_outcome, scope_result>>

\* the awaited request raises (an error reply, a closed or unready session)
RequestRaises ==
    /\ cpc \in {"l_wait", "t_wait"}
    /\ last' = Raised(IF cpc = "l_wait" THEN "list_tools" ELSE "call_tool", "McpError")
    /\ cpc' = "idle"
    /\ UNCHANGED <<call_result, server_tools>>
    /\ UNCHANGED other
    /\ UNCHANGED loopVars
    /\ UNCHANGED <<scope, session, exit_stack, tools, child, sess, stops, pending,
                   sent, connected, ncalls, cleanups, body_outcome, scope_result>>

(***************************************************************************)
(* cleanup, and __aexit__ which only calls it.                             *)
(***************************************************************************)
\* how the body of `async with` can end: while it runs on, by returning or
\* raising; while it awaits a request, by being cancelled there
BodyOutcomes ==
    IF cpc = "idle" THEN {"return", "exception", "cancelled"}
    ELSE {"cancelled"}

\* variant: __aexit__ cleans up only when the body ended without an exception
aexit_on_success_only ==
    /\ scope = "body"
    /\ cpc \in {"idle", "l_wait", "t_wait"}
    /\ \E o \in BodyOutcomes :
        /\ body_outcome' = o
        /\ IF o = "return"
           THEN /\ scope' = "exiting"
                /\ cpc' = "x_close"
                /\ cleanups' = cleanups + 1
                /\ UNCHANGED scope_result
           ELSE /\ scope' = "exited"
                /\ cpc' = "idle"
                /\ scope_result' = o
                /\ UNCHANGED cleanups
    /\ pending' = "none"
    /\ UNCHANGED <<call_result, server_tools>>
    /\ UNCHANGED other
    /\ UNCHANGED loopVars
    /\ UNCHANGED <<session, exit_stack, tools, child, sess, stops, sent, last,
                   connected, ncalls>>

\* the body ends: __aexit__ calls cleanup
aexit ==
    /\ scope = "body"
    /\ cpc \in {"idle", "l_wait", "t_wait"}
    /\ \E o \in BodyOutcomes : body_outcome' = o
    /\ scope' = "exiting"
    /\ cpc' = "x_close"
    /\ pending' = "none"
    /\ cleanups' = cleanups + 1
    /\ UNCHANGED <<call_result, server_tools>>
    /\ UNCHANGED other
    /\ UNCHANGED loopVars
    /\ UNCHANGED <<session, exit_stack, tools, child, sess, stops, sent, last,
                   connected, ncalls, scope_result>>

\* cleanup called directly
cleanup ==
    /\ scope = "direct"
    /\ cpc = "idle"
    /\ cleanups < MaxCleanups
    /\ cpc' = "x_close"
    /\ pending' = "none"
    /\ cleanups' = cleanups + 1
    /\ UNCHANGED <<call_result, server_tools>>
    /\ UNCHANGED other
    /\ UNCHANGED loopVars
    /\ UNCHANGED <<scope, session, exit_stack, tools, child, sess, stops, sent,
                   last, connected, ncalls, body_outcome, scope_result>>

\* exit_stack.aclose() exits the context entered last, once: the ClientSession
\* is closed, the transport stops its server process. The exit may raise
\* after that, and aclose then goes on unwinding with the exception
AcloseStep ==
    /\ cpc = "x_close"
    /\ Len(exit_stack) > 0
    /\ LET top == exit_stack[Len(exit_stack)]
       IN /\ exit_stack' = SubSeq(exit_stack, 1, Len(exit_stack) - 1)
          /\ sess' = IF top = "session" THEN "closed" ELSE sess
          /\ child' = IF top = "stdio" THEN "stopped" ELSE child
          /\ stops' = IF top = "stdio" THEN stops + 1 ELSE stops
    /\ pending' \in {pending, "TeardownError"}
    /\ UNCHANGED <<call_result, server_tools>>
    /\ UNCHANGED other
    /\ UNCHANGED loopVars
    /\ UNCHANGED <<scope, cpc, session, tools, sent, last, connected, ncalls,
                   cleanups, body_outcome, scope_result>>

\* aclose returned: `self.session = None`, cleanup returns
CleanupReturns ==
    /\ cpc = "x_close"
    /\ Len(exit_stack) = 0
    /\ pending = "none"
    /\ session' = "None"
    /\ cpc' = "idle"
    /\ last' = Returned("cleanup", NoValue)
    /\ scope' = IF scope = "exiting" THEN "exited" ELSE scope
    /\ scope_result' = IF scope = "exiting" THEN body_outcome ELSE scope_result
    /\ UNCHANGED <<call_result, server_tools>>
    /\ UNCHANGED other
    /\ UNCHANGED loopVars
    /\ UNCHANGED <<exit_stack, tools, child, sess, stops, pending, sent, connected,
                   ncalls, cleanups, body_outcome>>

\* aclose raised: cleanup raises before `self.session = None`, and so does __aexit__
CleanupRaises ==
    /\ cpc = "x_close"
    /\ Len(exit_stack) = 0
    /\ pending # "none"
    /\ cpc' = "idle"
    /\ last' = Raised("cleanup", pending)
    /\ scope' = IF scope = "exiting" THEN "exited" ELSE scope
    /\ scope_result' = IF scope = "exiting" THEN pending ELSE scope_result
    /\ UNCHANGED <<call_result, server_tools>>
    /\ UNCHANGED other
    /\ UNCHANGED loopVars
    /\ UNCHANGED <<session, exit_stack, tools, child, sess, stops, pending, sent,
                   connected, ncalls, cleanups, body_outcome>>

\* the server changes the operations it exposes
ServerChanges ==
    /\ child = "alive"
    /\ \E ts \in ServerToolLists \ {server_tools} : server_tools' = ts
    /\ UNCHANGED call_result
    /\ UNCHANGED other
    /\ UNCHANGED loopVars
    /\ UNCHANGED <<scope, cpc, session, exit_stack, tools, child, sess, stops,
                   pending, sent, last, connected, ncalls, cleanups, body_outcome,
                   scope_result>>

(***************************************************************************)
(* A second task that shares the client. asyncio runs it whenever the      *)
(* first task is suspended in an await or is between two calls.            *)
(***************************************************************************)
OtherCanCall ==
    /\ scope = "direct"
    /\ other \notin {"l_wait", "t_wait"}
    /\ ncalls < MaxCalls

\* the second task runs list_tools up to its await
other_list_tools ==
    /\ OtherCanCall
    /\ ncalls' = ncalls + 1
    /\ IF SessionSet
       THEN /\ sent' = Append(sent, Request("list_tools"))
            /\ other' = "l_wait"
       ELSE /\ other' = "not_connected"
            /\ UNCHANGED sent
    /\ UNCHANGED <<call_result, server_tools>>
    /\ UNCHANGED loopVars
    /\ UNCHANGED <<scope, cpc, session, exit_stack, tools, child, sess, stops,
                   pending, last, connected, cleanups, body_outcome, scope_result>>

\* the second task runs call_tool up to its await
other_call_tool ==
    /\ OtherCanCall
    /\ ncalls' = ncalls + 1
    /\ IF SessionSet
       THEN /\ sent' = Append(sent, Request("call_tool"))
            /\ other' = "t_wait"
       ELSE /\ other' = "not_connected"
            /\ UNCHANGED sent
    /\ UNCHANGED <<call_result, server_tools>>
    /\ UNCHANGED loopVars
    /\ UNCHANGED <<scope, cpc, session, exit_stack, tools, child, sess, stops,
                   pending, last, connected, cleanups, body_outcome, scope_result>>

\* the request of the second task is answered and its call returns
OtherReturns ==
    /\ other \in {"l_wait", "t_wait"}
    /\ sess = "ready"
    /\ other' = "returned"
    /\ UNCHANGED <<call_result, server_tools>>
    /\ UNCHANGED loopVars
    /\ UNCHANGED <<scope, cpc, session, exit_stack, tools, child, sess, stops,
                   pending, sent, last, connected, ncalls, cleanups, body_outcome,
                   scope_result>>

\* the awaited request of the second task raises (an error reply, a closed
\* or unready session)
OtherRaises ==
    /\ other \in {"l_wait", "t_wait"}
    /\ other' = "raised"
    /\ UNCHANGED <<call_result, server_tools>>
    /\ UNCHANGED loopVars
    /\ UNCHANGED <<scope, cpc, session, exit_stack, tools, child, sess, stops,
                   pending, sent, last, connected, ncalls, cleanups, body_outcome,
                   scope_result>>

NextClient ==
    \/ aenter
    \/ connect
    \/ StdioEntered
    \/ SessionEntered
    \/ Initialized
    \/ ToolsDiscovered
    \/ ConnectRaises
    \/ list_tools
    \/ call_tool
    \/ ListToolsReturns
    \/ CallToolReturns
    \/ RequestRaises
    \/ aexit
    \/ cleanup
    \/ AcloseStep
    \/ CleanupReturns
    \/ CleanupRaises
    \/ ServerChanges

(***************************************************************************)
(* Specifications.                                                         *)
(***************************************************************************)
\* a run of generate_script; this variant of the loop uses no MCP client
Init ==
    /\ InitLoop
    /\ scope = "direct"
    /\ server_tools = ServerTools
    /\ Constructed
Next == NextLoop
Spec == Init /\ [][Next]_vars

\* the steps of generate_script alone, for a run of the CLI without --duration
InitLive ==
    /\ caller = "cli"
    /\ duration_arg = {}
    /\ LoopStart
    /\ scope = "direct"
    /\ server_tools = ServerTools
    /\ Constructed
NextLive ==
    \/ EngineFails
    \/ EngineRequestsTools
    \/ EngineFinal
    \/ SkipBlock
    \/ StartToolCall
    \/ ToolReturns
    \/ ToolRaises
    \/ AppendTurns

\* every engine query and every tool execution that was begun comes back (with
\* a value or an exception), and the loop takes its next step
Returning ==
    /\ WF_vars(EngineFails \/ EngineRequestsTools \/ EngineFinal)
    /\ WF_vars(SkipBlock)
    /\ WF_vars(StartToolCall)
    /\ WF_vars(ToolReturns \/ ToolRaises)
    /\ WF_vars(AppendTurns)
SpecLive == InitLive /\ [][NextLive]_vars /\ Returning

\* runs of generate_script in which the engine asks for searches with every
\* max_results of SearchInputs
NextSearch ==
    \/ EngineRequestsSearch
    \/ EngineFinal
    \/ StartToolCall
    \/ ToolReturns
    \/ ToolRaises
    \/ AppendTurns
SpecSearch == InitLive /\ [][NextSearch]_vars

\* the life of one ArxivMCPClient
LoopNotStarted ==
    /\ caller = "cli"
    /\ duration_arg = {}
    /\ LoopStart
InitClientSpec ==
    /\ InitClient
    /\ LoopNotStarted
SpecClient == InitClientSpec /\ [][NextClient]_vars

\* one ArxivMCPClient shared by two tasks: one connects and cleans up, the
\* other calls list_tools and call_tool
InitShared ==
    /\ scope = "direct"
    /\ server_tools = ServerTools
    /\ Constructed
    /\ LoopNotStarted
NextShared ==
    \/ connect
    \/ StdioEntered
    \/ SessionEntered
    \/ Initialized
    \/ ToolsDiscovered
    \/ ConnectRaises
    \/ cleanup
    \/ AcloseStep
    \/ CleanupReturns
    \/ CleanupRaises
    \/ other_list_tools
    \/ other_call_tool
    \/ OtherReturns
    \/ OtherRaises
SpecShared == InitShared /\ [][NextShared]_vars

(***************************************************************************)
(* Properties of generate_script.                                          *)
(***************************************************************************)
\* tools=[ARXIV_SEARCH_TOOL]: the names the engine was given
RegisteredTools == {"arxiv_search"}

IsToolUse(b) == b.type = "tool_use"
ToolUses(content) == SelectSeq(content, IsToolUse)
ToolUseAt(content) == {i \in 1..Len(content) : content[i].type = "tool_use"}
TextAt(content) == {i \in 1..Len(content) : content[i].type = "text"}

\* the assistant turns of the transcript
AssistantTurns == {k \in 1..Len(messages) : messages[k].role = "assistant"}
\* an assistant turn is followed by a user turn
Answered(k) == k < Len(messages) /\ messages[k + 1].role = "user"

\* C1: every tool request of a tool_use response has exactly one tool result
\* in the results turn that follows it, and that turn has no other entry; the
\* engine is queried again only with such complete pairs in the transcript.
C1_EveryRequestAnsweredOnce ==
    \A k \in AssistantTurns :
        /\ Answered(k)
        /\ LET content == messages[k].content
               results == messages[k + 1].content
           IN /\ Len(results) = Cardinality(ToolUseAt(content))
              /\ \A i \in ToolUseAt(content) :
                    Cardinality({j \in 1..Len(results) :
                                    results[j].tool_use_id = content[i].id}) = 1

\* a second query was issued after a turn with two tool requests
C1_Witness ==
    /\ nqueries = 2
    /\ Len(messages) = 3
    /\ Cardinality(ToolUseAt(messages[2].content)) = 2
    /\ Len(messages[3].content) = 2

\* C2: the results turn lists the results in request order: its i-th entry
\* carries the invocation id of the i-th tool request of the turn. While a
\* turn is executed the results collected are those of the requests before
\* the one the loop is at, in that order: an execution starts only when every
\* earlier one of the turn has completed, whatever time each takes.
C2_ResultsInRequestOrder ==
    /\ \A k \in AssistantTurns :
        /\ Answered(k)
        /\ LET requests == ToolUses(messages[k].content)
               results == messages[k + 1].content
           IN /\ Len(results) = Len(requests)
              /\ \A i \in 1..Len(requests) :
                    /\ results[i].type = "tool_result"
                    /\ results[i].tool_use_id = requests[i].id
    /\ pc \in {"ExecutingTools", "AwaitingTool"} =>
        /\ Len(tool_results) =
              Cardinality({i \in ToolUseAt(response.content) : i < idx})
        /\ \A i \in 1..Len(tool_results) :
              tool_results[i].tool_use_id = ToolUses(response.content)[i].id

\* two requests whose ids come in the order t2, t1 were answered
C2_Witness ==
    /\ Len(messages) = 3
    /\ Len(ToolUses(messages[2].content)) = 2
    /\ ToolUses(messages[2].content)[1].id = "t2"
    /\ ToolUses(messages[2].content)[2].id = "t1"
    /\ messages[3].content[1].tool_use_id = "t2"
    /\ messages[3].content[2].tool_use_id = "t1"

\* the block the for loop is at
CurrentBlock == response.content[idx]
ToolErrors == {"KeyError", "HTTPError"}

\* C5: a request for a tool that is not registered never raises: its result is
\* the error text naming the tool, the results turn is appended and the engine
\* is queried again; when that query gives final text, that text is returned.
C5_UnknownToolAnswered ==
    /\ (pc = "AwaitingTool" /\ CurrentBlock.name \notin RegisteredTools)
          => \A o \in process_tool_call(CurrentBlock.name, CurrentBlock.input) :
                ~o.raised /\ o.value = UnknownTool(CurrentBlock.name)
    /\ (pc = "Failed" /\ error \in ToolErrors)
          => CurrentBlock.name \in RegisteredTools
    /\ \A k \in AssistantTurns :
          /\ Answered(k)
          /\ \A i \in 1..Len(ToolUses(messages[k].content)) :
                LET request == ToolUses(messages[k].content)[i]
                IN request.name \notin RegisteredTools
                      => /\ i <= Len(messages[k + 1].content)
                         /\ messages[k + 1].content[i].content.kind = "unknown_tool"
                         /\ messages[k + 1].content[i].content.name = request.name

\* scenario D: an unknown tool was answered with the error text and the second
\* query returned the final text
C5_Witness ==
    /\ pc = "Done"
    /\ nqueries = 2
    /\ Len(messages) = 3
    /\ Len(ToolUses(messages[2].content)) = 1
    /\ ToolUses(messages[2].content)[1].name = "web_search"
    /\ messages[3].content[1].content = UnknownTool("web_search")
    /\ returned = "s1"

\* C6: a tool invocation that fails after another of the same turn succeeded
\* does not abort generate_script.
C6_PartialFailureRecovered ==
    ~(pc = "Failed" /\ error \in ToolErrors /\ Len(tool_results) > 0)

\* a response that is final: no tool_use stop reason, no tool request, a text
FinalAnswer ==
    /\ response.stop_reason \notin {"none", "tool_use"}
    /\ ToolUseAt(response.content) = {}
    /\ TextAt(response.content) # {}
\* its text: that of its first text block
AnswerText ==
    LET first == CHOOSE i \in TextAt(response.content) :
                    \A j \in TextAt(response.content) : i <= j
    IN response.content[first].text
\* tool requests the transcript holds
RECURSIVE RequestsIn(_)
RequestsIn(msgs) ==
    IF Len(msgs) = 0 THEN 0
    ELSE (IF Head(msgs).role = "assistant"
          THEN Len(ToolUses(Head(msgs).content)) ELSE 0)
         + RequestsIn(Tail(msgs))

\* C7: on a final answer (text, no tool request) the loop is Done at once and
\* returns that text unchanged; no tool is executed for that response and no
\* further engine query is issued.
C7_FinalTextReturned ==
    /\ [](FinalAnswer =>
            /\ pc = "Done"
            /\ returned = AnswerText
            /\ Len(calls) = RequestsIn(messages))
    /\ [][FinalAnswer =>
            /\ nqueries' = nqueries
            /\ calls' = calls
            /\ messages' = messages
            /\ returned' = returned]_vars

\* the first response was a final answer and its text was returned
C7_Witness ==
    /\ pc = "Done"
    /\ nqueries = 1
    /\ response = [stop_reason |-> "end_turn", content |-> <<TextBlock("s2")>>]
    /\ returned = "s2"
    /\ calls = <<>>

\* a handled response with neither a tool request nor a text
EmptyAnswer ==
    /\ response.stop_reason \notin {"none", "tool_use"}
    /\ ToolUseAt(response.content) = {}
    /\ TextAt(response.content) = {}

\* C8: a response with neither tool requests nor text ends generate_script in
\* a failure: it does not return a string, and its caller does not take one
\* for the script.
C8_EmptyResponseFails ==
    EmptyAnswer =>
        /\ pc = "Failed"
        /\ outcome.status \notin {"200", "saved"}

(***************************************************************************)
(* Properties of ArxivMCPClient.                                           *)
(***************************************************************************)
\* C3: once connect has succeeded inside `async with`, every way the body can
\* end (return, exception, cancellation) runs cleanup exactly once, and not
\* before the body ends; when the scope has been left the transport has been
\* stopped exactly once, no server process is alive, the ClientSession is
\* closed and nothing is left on the exit stack.
C3_TeardownOncePerScope ==
    /\ scope = "body" => (cleanups = 0 /\ stops = 0 /\ child = "alive")
    /\ scope = "exiting" => cleanups = 1
    /\ scope = "exited" =>
          /\ body_outcome \in {"return", "exception", "cancelled"}
          /\ cleanups = 1
          /\ stops = 1
          /\ child = "stopped"
          /\ sess = "closed"
          /\ Len(exit_stack) = 0

\* the body was cancelled while it awaited a request, and the scope was left
C3_Witness ==
    /\ scope = "exited"
    /\ body_outcome = "cancelled"
    /\ Len(sent) > 0
    /\ last.op # "call_tool" /\ last.op # "list_tools"
    /\ child = "stopped"
    /\ cleanups = 1

\* C4: when `async with ArxivMCPClient()` has raised out of its entry, the
\* transport it started has been stopped: no server process it started is
\* alive and nothing is left on the exit stack.
C4_PartialAcquisitionReleased ==
    scope = "enter_raised" =>
        /\ child # "alive"
        /\ Len(exit_stack) = 0
        /\ child = "stopped" => stops = 1

\* C9: a list_tools or call_tool call made while the handshake has not
\* completed (never connected, connect failed before or in initialize, already
\* cleaned up) raises the not-connected error and writes no request.
C9_NotReadyBeforeHandshake ==
    [][(ncalls' = ncalls + 1 /\ sess # "ready") =>
            /\ sent' = sent
            /\ last'.raised
            /\ last'.exc = NotConnected]_vars

\* connect ran to its end: only then are the tools filled in
ConnectCompleted == Len(tools) > 0

\* C10: a cleanup call that repeats a cleanup call, or is made on a client
\* whose connect never ran or never completed, does not raise and leaves the
\* client closed (session None, nothing on the exit stack, no server process
\* alive, no session open); no resource is torn down twice.
C10_CleanupIdempotent ==
    /\ [](stops <= 1)
    /\ [][(cpc = "x_close" /\ cpc' = "idle"
             /\ (last.op = "cleanup" \/ ~ConnectCompleted)) =>
            /\ ~last'.raised
            /\ session' = "None"
            /\ Len(exit_stack') = 0
            /\ child' # "alive"
            /\ sess' \in {"none", "closed"}]_vars

\* C11: a failure of the teardown never replaces the outcome of the scoped
\* block: once the scope is left, the caller observes what the body ended
\* with (its return, or the exception it raised), whether or not the exit of
\* a context raised during cleanup.
C11_TeardownKeepsOutcome ==
    scope = "exited" => scope_result = body_outcome

(***************************************************************************)
(* Properties of call_tool's result and of the tool registry.              *)
(***************************************************************************)
IsTextual(block) == "text" \in DOMAIN block
\* call_tool returned a string for the reply in call_result
CallToolAnswered == last.op = "call_tool" /\ ~last.raised

\* pieces are the texts of the textual blocks of content, in order, with one
\* newline between two neighbours and nothing else
JoinedTextsOf(pieces, content) ==
    LET textual == SelectSeq(content, IsTextual)
    IN /\ Len(pieces) = 2 * Len(textual) - 1
       /\ \A j \in 1..Len(pieces) :
             IF j % 2 = 1 THEN pieces[j] = textual[(j + 1) \div 2].text
             ELSE pieces[j] = "\n"

\* C12 as stated: call_tool returns exactly the texts of the textual blocks,
\* in order, joined by a single newline, for every reply, also one in which
\* no block is textual (the empty string then).
C12_OnlyTextsReturned ==
    CallToolAnswered =>
        /\ last.value.kind = "joined"
        /\ last.value.pieces = JoinNewline(BlockTexts(call_result.content))

\* C12: when the reply has a textual block, call_tool returns exactly the
\* texts of the textual blocks, in order, joined by a single newline, and the
\* other blocks contribute nothing. When the content is not empty and has no
\* textual block it returns the string form of the content list; when the
\* content is empty it returns "No result returned". No block makes it raise.
C12_TextsJoinedOrFallback ==
    CallToolAnswered =>
        LET content == call_result.content
        IN IF \E i \in 1..Len(content) : IsTextual(content[i])
           THEN /\ last.value.kind = "joined"
                /\ JoinedTextsOf(last.value.pieces, content)
           ELSE IF Len(content) > 0
           THEN last.value = [kind |-> "repr", content |-> content]
           ELSE last.value = [kind |-> "literal", pieces |-> <<"No result returned">>]

\* two textual blocks were joined with a newline
C12_Witness ==
    /\ CallToolAnswered
    /\ call_result.content = <<[type |-> "text", text |-> "b"], [type |-> "text", text |-> "a"]>>
    /\ last.value = [kind |-> "joined", pieces |-> <<"b", "\n", "a">>]

\* C13: a reply of the server that is an error reply (isError set) is never
\* returned by call_tool as a normal result string: whenever call_tool
\* returned, the reply it returned from was not an error reply.
C13_ErrorReplyNotReturned ==
    CallToolAnswered => ~call_result.isError

(***************************************************************************)
(* Further properties of generate_script.                                  *)
(***************************************************************************)
\* an engine query of the run has failed
EngineFailed == error = "APIError"

\* C14: when an engine query fails, generate_script ends in failure and the
\* failure reaches the caller: no script text is returned, the caller gets
\* only the error (500 with its detail, or the exception), and from then on no
\* tool is executed, no engine query is made and the transcript stays as it was.
C14_EngineFailurePropagates ==
    /\ [](EngineFailed =>
            /\ pc = "Failed"
            /\ returned = ""
            /\ outcome \in {[status |-> "pending"],
                            [status |-> "500", detail |-> "APIError"],
                            [status |-> "crashed", detail |-> "APIError"]})
    /\ [][EngineFailed' =>
            /\ calls' = calls
            /\ messages' = messages
            /\ EngineFailed => (nqueries' = nqueries /\ create_args' = create_args)]_vars

\* the second query failed, after a tool was executed for the first, and the
\* route answered 500
C14_Witness ==
    /\ EngineFailed
    /\ nqueries = 2
    /\ Len(calls) > 0
    /\ Len(messages) = 3
    /\ outcome = [status |-> "500", detail |-> "APIError"]

IsPrefix(s, t) == Len(s) <= Len(t) /\ SubSeq(t, 1, Len(s)) = s

\* msgs is the goal turn followed by pairs: an assistant turn, then the user
\* turn of tool results that answers the requests of that assistant turn
WellOrdered(msgs) ==
    /\ Len(msgs) % 2 = 1
    /\ msgs[1] = GoalTurn(duration_arg)
    /\ \A k \in 2..Len(msgs) :
          IF k % 2 = 0
          THEN msgs[k].role = "assistant"
          ELSE /\ msgs[k].role = "user"
               /\ \A j \in 1..Len(msgs[k].content) :
                     /\ msgs[k].content[j].type = "tool_result"
                     /\ \E i \in ToolUseAt(msgs[k - 1].content) :
                           msgs[k - 1].content[i].id = msgs[k].content[j].tool_use_id

\* C15: the transcript is append-only and well ordered: the message list, and
\* the one every engine query was made with, is the goal turn followed by zero
\* or more pairs (assistant turn, results turn), each results turn right after
\* the assistant turn it answers; a step only appends to the list, and each
\* query is made with an extension of the list of the query before.
C15_TranscriptAppendOnly ==
    /\ [](/\ WellOrdered(messages)
          /\ nqueries > 0 => WellOrdered(create_args.messages))
    /\ [][/\ IsPrefix(messages, messages')
          /\ IsPrefix(create_args.messages, create_args'.messages)
          /\ nqueries' # nqueries => create_args'.messages = messages]_vars

\* the second query was made with the goal turn and one pair, and its own
\* pair was appended after it
C15_Witness ==
    /\ nqueries = 2
    /\ Len(create_args.messages) = 3
    /\ Len(messages) = 5
    /\ Len(messages[3].content) > 0
    /\ Len(messages[5].content) > 0

\* the response the loop handles is a tool request / is another response
ToolRequested == response.stop_reason = "tool_use"
OtherResponse == response.stop_reason \notin {"tool_use", "none"}

\* C16: generate_script returns when, and only when, the engine gives a
\* response that is not a tool request: such a response is returned from at
\* once, the run is Done only on such a response, and it ends otherwise only
\* by an exception of a query or of a tool. A tool request, at any round, is
\* followed by the end of its round and the loop standing at the next query
\* (or by that exception): every run ends, or stands at a query with the
\* bound on queries used up, having looped on tool requests all along.
C16_TerminatesOnFinalResponse ==
    /\ [](OtherResponse <=> pc = "Done")
    /\ [](pc = "Failed" => error \in {"APIError"} \cup ToolErrors)
    /\ [][ToolRequested' /\ pc' # "Failed" =>
            pc' \in {"ExecutingTools", "AwaitingTool", "AwaitingEngine"}]_vars
    /\ (pc \in {"ExecutingTools", "AwaitingTool"})
          ~> (pc \in {"AwaitingEngine", "Failed"})
    /\ <>(\/ pc \in {"Done", "Failed"}
          \/ pc = "AwaitingEngine" /\ nqueries = MaxQueries /\ ToolRequested)

\* the run returned on the response that followed a tool round
C16_Witness ==
    /\ pc = "Done"
    /\ OtherResponse
    /\ nqueries = 2
    /\ Len(messages) = 3
    /\ Len(calls) = 1

\* the duration the caller provided, or the settings default when none was
ProvidedOrDefault ==
    IF duration_arg = {} THEN podcast_duration_minutes
    ELSE CHOOSE d \in duration_arg : TRUE

\* C17: the target word count of the goal turn, and of the system instructions
\* of every engine query, is 150 times the effective duration: the caller's
\* duration_minutes whenever one is provided, whatever integer it is, and the
\* settings default only when none is provided.
C17_WordCountFromDuration ==
    /\ messages[1].content.duration = ProvidedOrDefault
    /\ messages[1].content.word_count = 150 * ProvidedOrDefault
    /\ nqueries > 0 =>
          /\ create_args.system.duration_minutes = ProvidedOrDefault
          /\ create_args.system.word_count = 150 * ProvidedOrDefault

\* decls holds one declaration per operation of reported, in that order, with
\* the operation's name, description and schema
DeclaresExactly(decls, reported) ==
    /\ Len(decls) = Len(reported)
    /\ \A i \in 1..Len(reported) :
          /\ decls[i].name = reported[i].name
          /\ decls[i].description = reported[i].description
          /\ decls[i].input_schema = reported[i].inputSchema

\* C18: the tool registry is a snapshot: when connect completes, `tools` holds
\* one declaration per operation the server reported to it, in the reported
\* order and with the exact names; from then on no step (a list_tools or
\* call_tool call, a change of what the server exposes, cleanup) alters it.
C18_RegistrySnapshot ==
    /\ [][(cpc = "c_list" /\ cpc' = "idle" /\ ~last'.raised) =>
            DeclaresExactly(tools', server_tools)]_vars
    /\ [][ConnectCompleted => tools' = tools]_vars

\* after connect the server changed its operations and list_tools returned
\* the new ones, while `tools` still holds those of connect
C18_Witness ==
    /\ ConnectCompleted
    /\ last.op = "list_tools"
    /\ ~last.raised
    /\ last.value.declarations # tools
    /\ ~DeclaresExactly(tools, server_tools)

IsSearchCall(block) == block.name = "arxiv_search" /\ Has(block.input, "query")
\* the executed requests that reach _execute_arxiv_search
SearchCalls == SelectSeq(calls, IsSearchCall)

\* C19: the max_results ArxivSource.search is called with never exceeds 10:
\* for the i-th search made it is 5 when the request omitted max_results, the
\* requested value when that is at most 10, and 10 otherwise.
C19_MaxResultsCapped ==
    /\ Len(searches) <= Len(SearchCalls)
    /\ \A i \in 1..Len(searches) :
          LET input == SearchCalls[i].input
              passed == searches[i].max_results
          IN /\ passed <= 10
             /\ searches[i].query = input.query
             /\ "max_results" \notin input.keys => passed = 5
             /\ ("max_results" \in input.keys /\ input.max_results <= 10)
                   => passed = input.max_results
             /\ ("max_results" \in input.keys /\ input.max_results > 10)
                   => passed = 10

\* searches were made for a request of 12 and for one without max_results
C19_Witness ==
    /\ Len(searches) = 2
    /\ SearchCalls[1].input.keys = {"query", "max_results"}
    /\ SearchCalls[1].input.max_results = 12
    /\ searches[1].max_results = 10
    /\ SearchCalls[2].input.keys = {"query"}
    /\ searches[2].max_results = 5

\* C20: tools are executed only for a response whose stop_reason is tool_use.
\* A response with any other stop reason is returned from at once, whatever
\* blocks it has: no tool_use block of it is executed, nothing is appended to
\* the transcript, no further query is made.
C20_ToolsOnlyOnToolUse ==
    /\ [](pc \in {"ExecutingTools", "AwaitingTool"} => ToolRequested)
    /\ [][calls' # calls =>
            /\ ToolRequested
            /\ \E i \in ToolUseAt(response.content) :
                  calls' = Append(calls, response.content[i])]_vars
    /\ [][OtherResponse' =>
            /\ pc' = "Done"
            /\ calls' = calls
            /\ messages' = messages
            /\ OtherResponse => (nqueries' = nqueries /\ returned' = returned)]_vars

\* a max_tokens response that carries a tool request was returned from, and
\* the route answered, with no tool executed and no turn appended
C20_Witness ==
    /\ response.stop_reason = "max_tokens"
    /\ ToolUseAt(response.content) # {}
    /\ pc = "Done"
    /\ calls = <<>>
    /\ Len(messages) = 1
    /\ outcome.status = "200"

\* the response being handled has stop_reason tool_use and no tool_use block
EmptyToolRequest == ToolRequested /\ ToolUseAt(response.content) = {}

\* C21: a response with stop_reason tool_use and no tool_use block neither
\* fails nor ends the run: while it is handled no tool is executed and the run
\* is neither Done nor Failed; its round ends with the assistant turn and a
\* results turn with an empty list appended, the loop standing at the next
\* query, and the next query made is made with those two turns.
C21_EmptyToolRequestLoops ==
    /\ [][(EmptyToolRequest /\ pc = "ExecutingTools") =>
            /\ pc' \in {"ExecutingTools", "AwaitingEngine"}
            /\ calls' = calls
            /\ error' = error
            /\ returned' = returned
            /\ pc' = "AwaitingEngine" =>
                  messages' = messages \o
                      <<[role |-> "assistant", content |-> response.content],
                        [role |-> "user", content |-> <<>>]>>]_vars
    /\ [][(EmptyToolRequest /\ pc = "AwaitingEngine" /\ nqueries' # nqueries) =>
            /\ create_args'.messages = messages
            /\ messages[Len(messages)] = [role |-> "user", content |-> <<>>]]_vars
    /\ (EmptyToolRequest /\ pc = "ExecutingTools")
          ~> (EmptyToolRequest /\ pc = "AwaitingEngine")

\* a tool_use response with one text block and no tool request was answered
\* with an empty results turn, and the engine was queried again with it
C21_Witness ==
    /\ nqueries = 2
    /\ Len(create_args.messages) = 3
    /\ create_args.messages[2].content = <<[type |-> "text", text |-> "s1"]>>
    /\ create_args.messages[3] = [role |-> "user", content |-> <<>>]
    /\ calls = <<>>

\* the text of the block of content that comes first among its text blocks
FirstText(content) ==
    LET first == CHOOSE i \in TextAt(content) : \A j \in TextAt(content) : i <= j
    IN content[first].text

\* C22: when the response the run ends on has text blocks, generate_script
\* returns exactly the first of them in content order, whatever follows or
\* precedes it; nothing is returned while a tool_use response is handled, so
\* a text that accompanies tool requests is never the returned script.
C22_FirstTextReturned ==
    /\ [](pc = "Done" =>
            /\ OtherResponse
            /\ TextAt(response.content) # {} => returned = FirstText(response.content))
    /\ [](ToolRequested => returned = "")
    /\ [][returned' # returned =>
            /\ OtherResponse'
            /\ response' # response \/ nqueries' # nqueries]_vars

\* the run ended on a response with a tool_use block and then two texts, and
\* returned the first text
C22_Witness ==
    /\ pc = "Done"
    /\ Len(response.content) = 3
    /\ response.content[1].type = "tool_use"
    /\ response.content[2] = [type |-> "text", text |-> "s2"]
    /\ response.content[3] = [type |-> "text", text |-> "s1"]
    /\ returned = "s2"

(***************************************************************************)
(* Properties of a client shared by two tasks.                             *)
(***************************************************************************)
\* a cleanup call is in progress: it awaits exit_stack.aclose()
CleanupInProgress == cpc = "x_close"

\* C23: no list_tools or call_tool request is issued on the session once
\* cleanup has begun: a call started while a cleanup call is in progress
\* writes no request and fails with the not-connected error, so every call
\* that passes its connection check does so outside a cleanup.
C23_NoRequestOnceCleanupBegun ==
    [][(ncalls' # ncalls /\ CleanupInProgress) =>
            /\ sent' = sent
            /\ other' = "not_connected"]_vars

====
